---- MODULE Spec2Model ----
(***************************************************************************)
(* Restore orchestration of percona-backup-mongodb (pbm/restore/restore.go) *)
(* as a state machine: one coordinator agent and the shard agents run       *)
(* Restore.Run concurrently against one restore meta document and the lock  *)
(* collection of the PBM database.                                          *)
(***************************************************************************)
EXTENDS Integers, Sequences, FiniteSets, TLC

\* ------------------------------------------------------------------ bounds
\* clock steps taken, seconds per clock step, and disturbances injected
\* (failing calls and context cancellations) in one run
MaxTicks == 3
ClockStep == 15
MaxFaults == 1
\* lock heartbeat tasks that stop in one run
MaxStalls == 1
\* oplog timestamps: greatest seconds and ordinal; documents in the oplog
MaxT == 2
MaxI == 1
MaxOps == 3
\* documents in one batch of a cursor
BatchSize == 1

\* ------------------------------------------------------- program constants
StaleFrameSec == 30
WaitActionStart == 30

StatusStarting == "starting"
StatusRunning == "running"
StatusDumpDone == "dumpDone"
StatusDone == "done"
StatusError == "error"
NoReplset == "pbmnoreplicaset"

\* --------------------------------------------------------------- topology
Agents == {"c", "a", "b"}
Topologies == {"standalone", "replset", "sharded", "takeover"}
RsNames == {"", NoReplset, "rs0", "cfg", "rs1", "rs2"}

\* the agents whose Restore.Run is started by the restore command
Active(t) ==
  CASE t = "standalone" -> {"c"}
    [] t = "replset" -> {"c"}
    [] t = "sharded" -> {"c", "a"}
    [] t = "takeover" -> {"c", "a", "b"}

\* im.SetName of the node the agent is attached to
SetName(t, a) ==
  IF a = "c"
  THEN (CASE t = "standalone" -> ""
          [] t = "replset" -> "rs0"
          [] OTHER -> "cfg")
  ELSE "rs1"

IsSharded(t) == t \in {"sharded", "takeover"}

IsLeader(a) == a = "c"

GetShards(t) ==
  CASE t = "sharded" -> <<"rs1">>
    [] t = "takeover" -> <<"rs1", "rs2">>
    [] OTHER -> <<>>

\* ----------------------------------------------------------------- errors
\* An error is the sequence of the messages of its wrap chain, outermost
\* first; the nil error is the empty sequence.  err.Error() is the same
\* sequence read as "m1: m2: ...".
Nil == <<>>
Tok(s, rs, n) == [s |-> s, rs |-> rs, n |-> n]
NewErr(s) == <<Tok(s, "", 0)>>

\* pkg/errors: Wrap(nil, msg) is nil
Wrap(e, msg) == IF e = Nil THEN Nil ELSE NewErr(msg) \o e

\* text `sub` occurs in text `txt`
Contains(txt, sub) ==
  \E i \in 0..(Len(txt) - Len(sub)) : SubSeq(txt, i + 1, i + Len(sub)) = sub

Range(s) == {s[i] : i \in 1..Len(s)}

\* ------------------------------------------------- metadata store (pbm.PBM)
NoMeta == [exists |-> FALSE, status |-> "", error |-> Nil, hb |-> 0, replsets |-> <<>>]

SetRestoreMeta(m, status, t) ==
  [exists |-> TRUE, status |-> status, error |-> Nil, hb |-> t, replsets |-> <<>>]

RestoreHB(m, t) == IF m.exists THEN [m EXCEPT !.hb = t] ELSE m

AddRestoreRSMeta(m, rs) ==
  IF m.exists /\ rs \notin Range(m.replsets)
  THEN [m EXCEPT !.replsets = Append(@, rs)]
  ELSE m

ChangeRestoreState(m, s, msg) ==
  IF m.exists THEN [m EXCEPT !.status = s, !.error = msg] ELSE m

\* positional update: the first entry with the name
ChangeRestoreRSState(m, rsName, s, msg) ==
  LET idx == {i \in 1..Len(m.replsets) : m.replsets[i].name = rsName}
  IN IF m.exists /\ idx # {}
     THEN LET i == CHOOSE j \in idx : \A k \in idx : j <= k
          IN [m EXCEPT !.replsets[i].status = s, !.replsets[i].error = msg]
     ELSE m

NoLock == [exists |-> FALSE, hb |-> 0]

VARIABLES
  topo,       \* deployment the restore command was issued in
  bcp,        \* the backup meta that cmd.BackupName resolves to
  now,        \* cluster time, seconds
  ticks,      \* clock steps taken
  faults,     \* disturbances injected so far
  meta,       \* the restore meta document of this restore
  lock,       \* lock collection: replset -> lock document
  hbOn,       \* the coordinator's heartbeat goroutine is running
  beating,    \* replset -> the lock heartbeat task of its agent is refreshing the lock
  cancelled,  \* agent -> its context is cancelled
  pc,         \* agent -> position in Restore.Run
  err,        \* agent -> Run's named result err
  tstart,     \* agent -> time the tickers of its converge loop were created
  started,    \* agent -> pipeline stages begun so far
  ctxRet,     \* agent -> a wait returned through the ctx.Done() branch
  everStatus, \* cluster statuses the meta has ever had
  ot,         \* backup.Oplog: the tailing span [start, end]
  oplog,      \* the node's oplog collection, in natural order
  cur,        \* WriteTo's cursor: open or not, and the documents read
  out,        \* what WriteTo's writer w has received, one entry per Write
  written,    \* WriteTo's local `written`
  ret,        \* WriteTo's return values, once it has returned
  exclude,    \* swapUsers: the pbm.AuthInfo of the current user
  usersC,     \* admin.system.users
  rolesC,     \* admin.system.roles
  tmpUsersC,  \* PBM-DB.pbmRUsers
  tmpRolesC,  \* PBM-DB.pbmRRoles
  curr,       \* swapUsers' cursor over tmpRoles
  curU,       \* swapUsers' cursor over tmpUsers (`cur` in swapUsers)
  spc,        \* position in swapUsers
  serr,       \* swapUsers' return value
  pre,        \* the four collections as they were when swapUsers was called
  bcpDb,      \* the document of the backup in the database
  bcpStore,   \* the object <backup-name>.pbm.json in the blob store
  from,       \* agent -> what its Run read to get the backup meta
  tkReady,    \* heartbeat goroutine: a tick is waiting in tk.C
  hbDone,     \* heartbeat goroutine: it has returned
  late        \* RestoreHB was called after hbstop was closed

ovars == <<ot, oplog, cur, out, written, ret>>
bvars == <<bcpDb, bcpStore, from>>
hvars == <<tkReady, hbDone, late>>
uvars == <<exclude, usersC, rolesC, tmpUsersC, tmpRolesC, curr, curU, spc, serr, pre>>

vars == <<topo, bcp, ovars, uvars, bvars, hvars, now, ticks, faults, meta, lock, hbOn, beating, cancelled, pc, err, tstart,
          started, ctxRet, everStatus>>

\* disturbances are injected in the deployments with one agent per replica
\* set; the takeover deployment runs without them
FaultBudget == IF topo = "takeover" THEN 0 ELSE MaxFaults

rsNameOf(a) == IF SetName(topo, a) = "" THEN NoReplset ELSE SetName(topo, a)

\* the replica sets of the deployment's agents
LocalSets(t) == {IF SetName(t, a) = "" THEN NoReplset ELSE SetName(t, a) : a \in Active(t)}

\* the backup metas a restore command can name: a successful backup of the
\* deployment, a failed one, and one that lacks a replica set
BackupMetas(t) ==
  {[status |-> StatusDone, names |-> LocalSets(t), compression |-> "s2"]}
    \cup (IF t = "takeover" THEN {}
          ELSE {[status |-> StatusError, names |-> LocalSets(t), compression |-> "s2"],
                [status |-> StatusDone, names |-> LocalSets(t), compression |-> "unknown"]}
                 \cup {[status |-> StatusDone, names |-> LocalSets(t) \ {n}, compression |-> "s2"] :
                         n \in LocalSets(t)})

RestoreInit ==
  /\ topo \in Topologies
  /\ bcp \in BackupMetas(topo)
  /\ now = 0
  /\ ticks = 0
  /\ faults = 0
  /\ meta = NoMeta
  /\ lock = [r \in RsNames |->
               IF \E a \in Active(topo) : rsNameOf(a) = r
               THEN [exists |-> TRUE, hb |-> 0] ELSE NoLock]
  /\ hbOn = FALSE
  /\ beating = [r \in RsNames |-> TRUE]
  /\ cancelled = [a \in Agents |-> FALSE]
  /\ pc = [a \in Agents |-> IF a \in Active(topo) THEN [at |-> "init", st |-> ""]
                                ELSE [at |-> "absent", st |-> ""]]
  /\ err = [a \in Agents |-> Nil]
  /\ tstart = [a \in Agents |-> 0]
  /\ started = [a \in Agents |-> {}]
  /\ ctxRet = [a \in Agents |-> FALSE]
  /\ everStatus = {}

\* no oplog slice is being written while the restore runs
OplogIdle ==
  /\ ot = [start |-> [T |-> 0, I |-> 0], end |-> [T |-> 0, I |-> 0]]
  /\ oplog = <<>>
  /\ cur = [open |-> FALSE, pos |-> 0]
  /\ out = <<>>
  /\ written = 0
  /\ ret = [done |-> FALSE, n |-> 0, err |-> <<>>]

\* no splice is running: the main model takes restoreUsers as one step
SwapIdle ==
  /\ exclude = [Users |-> <<>>, UserRoles |-> {}]
  /\ usersC = {}
  /\ rolesC = {}
  /\ tmpUsersC = [exists |-> FALSE, docs |-> {}]
  /\ tmpRolesC = [exists |-> FALSE, docs |-> {}]
  /\ curr = [rest |-> <<>>, got |-> 0, err |-> FALSE]
  /\ curU = [rest |-> <<>>, got |-> 0, err |-> FALSE]
  /\ spc = "idle"
  /\ serr = <<>>
  /\ pre = [users |-> {}, roles |-> {}, tmpUsers |-> {}, tmpRoles |-> {}]

NoBackup == [status |-> "", names |-> {}, compression |-> ""]
NotRead == [took |-> "", store |-> FALSE, m |-> NoBackup]

\* the backup is in the database and its metadata file is not looked at
BackupInDb ==
  /\ bcpDb = [exists |-> TRUE, meta |-> bcp]
  /\ bcpStore = [kind |-> "none", meta |-> NoBackup]
  /\ from = [a \in Agents |-> NotRead]

\* the heartbeat goroutine is taken with the clock (Tick)
HbIdle ==
  /\ tkReady = FALSE
  /\ hbDone = FALSE
  /\ late = FALSE

Init == RestoreInit /\ OplogIdle /\ SwapIdle /\ BackupInDb /\ HbIdle

\* ------------------------------------------------------------ converged
\* the participating list built by reconcileStatus: the coordinator's own
\* replica set, plus all known shards when sharded
Participating(a) ==
  <<SetName(topo, a)>> \o (IF IsSharded(topo) THEN GetShards(topo) ELSE <<>>)

LostShard(name, hb) == <<Tok("lost shard, last beat ts", name, hb)>>
UnableLock(name, e) == <<Tok("unable to read lock for shard", name, 0)>> \o e

\* the error text without the shard's own error
ShardFailedNoCause(name, e) == <<Tok("restore on the shard failed with", name, 0)>>

ShardFailed(name, e) == <<Tok("restore on the shard failed with", name, 0)>> \o e

\* a heartbeat check on every lock read, a missing document included
ChecksBeatAlways(status, lk) == status # StatusDone

\* line 468: the heartbeat is checked unless the target is Done or the lock
\* read found no document
ChecksBeat(status, lk) == status # StatusDone /\ lk.exists

\* no lock is ever found stale
HeartbeatNeverStale(lk, ct) == FALSE

\* line 472
HeartbeatStale(lk, ct) == lk.hb + StaleFrameSec < ct

\* The nested loops of converged over shards x bmeta.Replsets, in code order:
\* pair k is shard ((k-1) div n)+1 and entry ((k-1) mod n)+1.  The result is
\* the error of the first return inside the loops (Nil when the loops run to
\* their end) and the value of shardsToFinish.  GetLockData fails with an
\* error other than ErrNoDocuments at pair bad (0: at none).
RECURSIVE ConvergedScan(_, _, _, _, _, _, _, _)
ConvergedScan(bmeta, locks, ct, shards, status, bad, k, toFinish) ==
  LET n == Len(bmeta.replsets) IN
  IF n = 0 \/ k > Len(shards) * n
  THEN [err |-> Nil, toFinish |-> toFinish]
  ELSE
    LET sh == shards[((k - 1) \div n) + 1]
        shard == bmeta.replsets[((k - 1) % n) + 1]
        lk == locks[shard.name]
    IN IF shard.name # sh
       THEN ConvergedScan(bmeta, locks, ct, shards, status, bad, k + 1, toFinish)
       ELSE IF status # StatusDone /\ bad = k
       THEN [err |-> UnableLock(shard.name, NewErr("db")), toFinish |-> toFinish]
       ELSE IF ChecksBeat(status, lk) /\ HeartbeatStale(lk, ct)
       THEN [err |-> LostShard(shard.name, lk.hb), toFinish |-> toFinish]
       ELSE IF shard.status = status
       THEN ConvergedScan(bmeta, locks, ct, shards, status, bad, k + 1, toFinish - 1)
       ELSE IF shard.status = StatusError
       THEN [err |-> ShardFailed(shard.name, shard.error), toFinish |-> toFinish]
       ELSE ConvergedScan(bmeta, locks, ct, shards, status, bad, k + 1, toFinish)

\* converged after its two reads, up to its write: "err" the error returned
\* from the loops, "write" whether ChangeRestoreState(name, status, "") is
\* issued
ConvergedWith(bmeta, locks, ct, shards, status, bad) ==
  LET r == ConvergedScan(bmeta, locks, ct, shards, status, bad, 1, Len(shards))
  IN [err |-> r.err, write |-> r.err = Nil /\ r.toFinish = 0]

\* converged when every GetLockData succeeds or finds no document
Converged(bmeta, locks, ct, shards, status) ==
  ConvergedWith(bmeta, locks, ct, shards, status, 0)

\* waitForStatus, one tick after both reads succeeded
StuckErr(hb) == <<Tok("restore stuck, last beat ts", "", hb)>>

WaitForStatusTick(m, ct, status) ==
  IF m.hb + StaleFrameSec < ct
  THEN [done |-> TRUE, err |-> StuckErr(m.hb)]
  ELSE IF m.status = status
  THEN [done |-> TRUE, err |-> Nil]
  ELSE IF m.status = StatusError
  THEN [done |-> TRUE, err |-> Wrap(Nil, "restore failed")]
  ELSE [done |-> FALSE, err |-> Nil]

\* ------------------------------------------------------------ Restore.Run
P(at, st) == [at |-> at, st |-> st]
Absent == P("absent", "")
Returned == P("returned", "")

\* a call through r.cn: it fails when the agent's context is cancelled, and
\* may fail otherwise (an injected fault)
DbOutcome(a, f) ==
  /\ cancelled[a] => f
  /\ (f /\ ~cancelled[a]) => faults < FaultBudget
  /\ faults' = IF f /\ ~cancelled[a] THEN faults + 1 ELSE faults

\* a call on the storage, the node or mongorestore
LocalOutcome(f) ==
  /\ f => faults < FaultBudget
  /\ faults' = IF f THEN faults + 1 ELSE faults

Hist == everStatus' = IF meta'.exists THEN everStatus \cup {meta'.status} ELSE everStatus

\* Run returns e; the deferred close(hbstop) stops the heartbeat goroutine
Return(a, e) ==
  /\ pc' = [pc EXCEPT ![a] = Returned]
  /\ err' = [err EXCEPT ![a] = e]
  /\ hbOn' = IF IsLeader(a) THEN FALSE ELSE hbOn

\* Run returns e # nil after the deferred MarkFailed was registered
Fail(a, e) ==
  /\ pc' = [pc EXCEPT ![a] = P("mf1", "")]
  /\ err' = [err EXCEPT ![a] = e]
  /\ hbOn' = hbOn

Goto(a, p) ==
  /\ pc' = [pc EXCEPT ![a] = p]
  /\ err' = err
  /\ hbOn' = hbOn

\* the deferred tk.Stop() and tout.Stop() when the converge loop is left
StopTimeout(a) ==
  tstart' = IF pc'[a].at \in {"conv", "convw"} THEN tstart ELSE [tstart EXCEPT ![a] = 0]

DbErr == NewErr("db")
IoErr == NewErr("io")

\* lines 55-94: storage, backup meta, isMaster, the replset of the backup
\* the backup's status is not looked at
ResolveErrAnyStatus(b, rsName) ==
  IF rsName \notin b.names
  THEN <<Tok("metadata for replset/shard is not found", rsName, 0)>>
  ELSE Nil

\* lines 68-70 and 82-94: the checks of the backup meta b
ResolveErr(b, rsName) ==
  IF b.status # StatusDone
  THEN <<Tok("backup wasn't successful: status, error", b.status, 0)>>
  ELSE IF rsName \notin b.names
  THEN <<Tok("metadata for replset/shard is not found", rsName, 0)>>
  ELSE Nil

Resolve(a) ==
  /\ pc[a] = P("init", "")
  /\ \E f \in {"ok", "storage", "meta", "ismaster"} :
       /\ IF f = "ismaster" THEN LocalOutcome(TRUE) ELSE DbOutcome(a, f # "ok")
       /\ cancelled[a] => f = "storage"
       /\ f = "ismaster" => bcp.status = StatusDone
       /\ LET e == CASE f = "storage" -> Wrap(DbErr, "get backup storage")
                     [] f = "meta" -> Wrap(DbErr, "get backup metadata")
                     [] f = "ismaster" -> Wrap(IoErr, "get isMaster data")
                     [] OTHER -> ResolveErr(bcp, rsNameOf(a))
          IN IF e # Nil
             THEN Return(a, e)
             ELSE Goto(a, IF IsLeader(a) THEN P("setmeta", "") ELSE P("wait", StatusStarting))
  /\ UNCHANGED <<beating, topo, bcp, ovars, uvars, bvars, hvars, now, ticks, meta, lock, cancelled, tstart, started, ctxRet, everStatus>>

\* lines 96-125: the leader writes the meta and starts the heartbeat goroutine
SetMeta(a) ==
  /\ pc[a] = P("setmeta", "")
  /\ \E f \in BOOLEAN :
       /\ DbOutcome(a, f)
       /\ IF f
          THEN /\ Return(a, Wrap(DbErr, "write backup meta to db"))
               /\ meta' = meta
          ELSE /\ pc' = [pc EXCEPT ![a] = P("wait", StatusStarting)]
               /\ err' = err
               /\ hbOn' = TRUE
               /\ meta' = SetRestoreMeta(meta, StatusStarting, now)
  /\ Hist
  /\ UNCHANGED <<beating, topo, bcp, ovars, uvars, bvars, hvars, now, ticks, lock, cancelled, tstart, started, ctxRet>>

\* where Run goes when waitForStatus(st) returned nil
AfterWait(st) ==
  CASE st = StatusStarting -> P("addrs", "")
    [] st = StatusRunning -> P("dump", "")
    [] st = StatusDumpDone -> P("oplog", "")

\* lines 129-132, 164-167, 248-251 with waitForStatus (501-531): one select
WaitForStatus(a, st) ==
  /\ pc[a] = P("wait", st)
  /\ \/ /\ cancelled[a]
        /\ Goto(a, AfterWait(st))
        /\ ctxRet' = [ctxRet EXCEPT ![a] = TRUE]
        /\ faults' = faults
     \/ /\ ctxRet' = ctxRet
        /\ \E f \in {"ok", "meta", "time"} :
             /\ DbOutcome(a, f # "ok")
             /\ cancelled[a] => f = "meta"
             /\ ~meta.exists => f \in {"ok", "meta"}
             /\ LET r == CASE f = "meta" \/ ~meta.exists ->
                              [done |-> TRUE, err |-> Wrap(DbErr, "get restore metadata")]
                           [] f = "time" /\ meta.exists ->
                              [done |-> TRUE, err |-> Wrap(DbErr, "read cluster time")]
                           [] OTHER -> WaitForStatusTick(meta, now, st)
                    e == Wrap(r.err, "waiting for start")
                IN /\ r.done
                   /\ IF e = Nil THEN Goto(a, AfterWait(st))
                      ELSE IF st = StatusStarting THEN Return(a, e)
                      ELSE Fail(a, e)
  /\ UNCHANGED <<beating, topo, bcp, ovars, uvars, bvars, hvars, now, ticks, meta, lock, cancelled, tstart, started, everStatus>>

\* where Run goes after its own replset reached st: the leader reconciles,
\* the others wait (or return after Done)
AfterOwn(a, st) ==
  IF IsLeader(a) THEN P("reconcile", st)
  ELSE IF st = StatusDone THEN Returned
  ELSE P("wait", st)

\* lines 134-152: add this replset's entry
AddRS(a) ==
  /\ pc[a] = P("addrs", "")
  /\ \E f \in BOOLEAN :
       /\ DbOutcome(a, f)
       /\ IF f
          THEN /\ Fail(a, Wrap(DbErr, "add shard's metadata"))
               /\ meta' = meta
          ELSE /\ Goto(a, AfterOwn(a, StatusRunning))
               /\ meta' = AddRestoreRSMeta(meta,
                            [name |-> rsNameOf(a), startTS |-> now,
                             status |-> StatusRunning, error |-> Nil])
  /\ Hist
  /\ UNCHANGED <<beating, topo, bcp, ovars, uvars, bvars, hvars, now, ticks, lock, cancelled, tstart, started, ctxRet>>

\* where Run goes when reconcileStatus(st) returned nil
AfterConv(st) == IF st = StatusDone THEN Returned ELSE P("wait", st)

\* the message Run wraps a reconcileStatus error in (157-160, 244, 292)
CheckMsg(st) ==
  CASE st = StatusRunning -> "check cluster for restore started"
    [] st = StatusDumpDone -> "check cluster for restore dump done"
    [] st = StatusDone -> "check cluster for the restore done"

ErrConvergeTimeOut == NewErr("reached converge timeout")

\* the tickers of convergeCluster have no timeout; convergeClusterWithTimeout
\* is used for StatusRunning only (155)
ConvergeMsg(st) == IF st = StatusRunning THEN "convergeClusterWithTimeout" ELSE "convergeCluster"

\* Run without the errors.Cause(err) == errConvergeTimeOut case
ReconcileErrNoCause(e, st) == Wrap(Wrap(e, ConvergeMsg(st)), CheckMsg(st))

\* the error Run returns for the error e of convergeCluster[WithTimeout]
ReconcileErr(e, st) ==
  LET w == Wrap(e, ConvergeMsg(st))
  IN IF e = ErrConvergeTimeOut
     THEN Wrap(w, "couldn't get response from all shards")
     ELSE Wrap(w, CheckMsg(st))

\* every convergence is bounded by a timeout
BoundedAlways(st) == TRUE

\* lines 155, 242, 290 with 392-395: Run passes a timeout to reconcileStatus
\* for StatusRunning only, and nil selects convergeCluster
Bounded(st) == st = StatusRunning

\* lines 376-396: reconcileStatus up to the start of the converge loop
Reconcile(a, st) ==
  /\ pc[a] = P("reconcile", st)
  /\ \E f \in BOOLEAN :
       /\ IF IsSharded(topo) THEN DbOutcome(a, f) ELSE (~f /\ faults' = faults)
       /\ IF f
          THEN /\ Fail(a, Wrap(Wrap(DbErr, "get shards list"), CheckMsg(st)))
               /\ tstart' = tstart
          ELSE /\ Goto(a, P("conv", st))
               /\ tstart' = [tstart EXCEPT ![a] = now]
  /\ UNCHANGED <<beating, topo, bcp, ovars, uvars, bvars, hvars, now, ticks, meta, lock, cancelled, started, ctxRet, everStatus>>

\* a timeout ticker that has fired as soon as it is created
TimedOutAtOnce(a) == TRUE

\* lines 424, 436: the ticker tout, created with period t when the loop is
\* entered, has fired
TimedOut(a) == now >= tstart[a] + WaitActionStart

\* lines 399-442 with converged 444-488: one select of the converge loop
ConvPoll(a, st) ==
  /\ pc[a] = P("conv", st)
  /\ \/ /\ cancelled[a]
        /\ IF st = StatusDone THEN Return(a, Nil) ELSE Goto(a, AfterConv(st))
        /\ ctxRet' = [ctxRet EXCEPT ![a] = TRUE]
        /\ faults' = faults
     \/ /\ Bounded(st)
        /\ TimedOut(a)
        /\ Fail(a, ReconcileErr(ErrConvergeTimeOut, st))
        /\ UNCHANGED <<ctxRet, faults>>
     \/ /\ ctxRet' = ctxRet
        /\ \E f \in {"ok", "meta", "time", "lock"} :
           \E bad \in 0..(Len(Participating(a)) * Len(meta.replsets)) :
             /\ DbOutcome(a, f # "ok")
             /\ cancelled[a] => f = "meta"
             /\ ~meta.exists => f \in {"ok", "meta"}
             /\ (bad # 0) = (f = "lock")
             /\ LET r == CASE f = "meta" \/ ~meta.exists ->
                              [err |-> Wrap(DbErr, "get backup metadata"), write |-> FALSE]
                           [] f = "time" /\ meta.exists ->
                              [err |-> Wrap(DbErr, "read cluster time"), write |-> FALSE]
                           [] OTHER ->
                              ConvergedWith(meta, lock, now, Participating(a), st, bad)
                IN /\ f = "lock" => (r.err # Nil /\ r.err[1].s = "unable to read lock for shard")
                   /\ IF r.err # Nil THEN Fail(a, ReconcileErr(r.err, st))
                      ELSE /\ r.write
                           /\ Goto(a, P("convw", st))
  /\ StopTimeout(a)
  /\ UNCHANGED <<beating, topo, bcp, ovars, uvars, bvars, hvars, now, ticks, meta, lock, cancelled, started, everStatus>>

\* lines 490-496: the write of the cluster status that ends converged
ConvWrite(a, st) ==
  /\ pc[a] = P("convw", st)
  /\ \E f \in BOOLEAN :
       /\ DbOutcome(a, f)
       /\ IF f
          THEN /\ Fail(a, ReconcileErr(Wrap(DbErr, "update backup meta"), st))
               /\ meta' = meta
          ELSE /\ IF st = StatusDone THEN Return(a, Nil) ELSE Goto(a, AfterConv(st))
               /\ meta' = ChangeRestoreState(meta, st, Nil)
  /\ Hist
  /\ StopTimeout(a)
  /\ UNCHANGED <<beating, topo, bcp, ovars, uvars, bvars, hvars, now, ticks, lock, cancelled, started, ctxRet>>

\* lines 169-233: open and decode the dump, mongorestore
DumpOutcomes == {"ok", "source", "decompress", "version", "noversion", "session", "restore"}

DumpErr(o) ==
  CASE o = "source" -> Wrap(IoErr, "get object for the storage")
    [] o = "decompress" -> Wrap(IoErr, "decompress object")
    [] o = "version" -> Wrap(IoErr, "define mongo version")
    [] o = "noversion" -> Wrap(Nil, "define mongo version")
    [] o = "session" -> Wrap(IoErr, "create session for the dump restore")
    [] o = "restore" -> Wrap(IoErr, "restore mongo dump")
    [] OTHER -> Nil

\* the compression kinds Decompress has a decoder for
CompressionTypes == {"none", "gzip", "lz4", "snappy", "s2"}

\* Decompress(sr, c) fails for a compression kind it has no decoder for
DecompressFails(c) == c \notin CompressionTypes

Dump(a) ==
  /\ pc[a] = P("dump", "")
  /\ \E o \in DumpOutcomes :
       /\ IF DecompressFails(bcp.compression)
          THEN /\ o \in {"source", "decompress"}
               /\ LocalOutcome(o = "source")
          ELSE LocalOutcome(o # "ok")
       /\ started' = [started EXCEPT ![a] = IF o \in {"ok", "restore"} THEN @ \cup {"dump"} ELSE @]
       /\ IF o = "ok" THEN Goto(a, P("setrs", StatusDumpDone))
          ELSE IF DumpErr(o) = Nil THEN Return(a, Nil)
          ELSE Fail(a, DumpErr(o))
  /\ UNCHANGED <<beating, topo, bcp, ovars, uvars, bvars, hvars, now, ticks, meta, lock, cancelled, tstart, ctxRet, everStatus>>

SetMsg(st) == IF st = StatusDumpDone THEN "set shard's StatusDumpDone" ELSE "set shard's StatusDone"

\* lines 235-238 and 284-287: this replset's entry moves to st
SetRS(a, st) ==
  /\ pc[a] = P("setrs", st)
  /\ \E f \in BOOLEAN :
       /\ DbOutcome(a, f)
       /\ IF f
          THEN /\ Fail(a, Wrap(DbErr, SetMsg(st)))
               /\ meta' = meta
          ELSE /\ IF AfterOwn(a, st) = Returned THEN Return(a, Nil) ELSE Goto(a, AfterOwn(a, st))
               /\ meta' = ChangeRestoreRSState(meta, rsNameOf(a), st, Nil)
  /\ Hist
  /\ UNCHANGED <<beating, topo, bcp, ovars, uvars, bvars, hvars, now, ticks, lock, cancelled, tstart, started, ctxRet>>

\* lines 255-270: open and decode the oplog, Oplog.Apply
OplogOutcomes == {"ok", "source", "decompress", "apply"}

OplogErr(o) ==
  CASE o = "source" -> Wrap(IoErr, "get object for the storage")
    [] o = "decompress" -> Wrap(IoErr, "decompress object")
    [] o = "apply" -> Wrap(IoErr, "oplog apply")
    [] OTHER -> Nil

\* an oplog stage whose error is recorded but does not end Run
OplogNoReturn(a) ==
  /\ pc[a] = P("oplog", "")
  /\ \E o \in OplogOutcomes :
       /\ LocalOutcome(o # "ok")
       /\ started' = [started EXCEPT ![a] = IF o \in {"ok", "apply"} THEN @ \cup {"oplog"} ELSE @]
       /\ pc' = [pc EXCEPT ![a] = P("users", "")]
       /\ err' = [err EXCEPT ![a] = OplogErr(o)]
       /\ hbOn' = hbOn
  /\ UNCHANGED <<beating, topo, bcp, ovars, uvars, bvars, hvars, now, ticks, meta, lock, cancelled, tstart, ctxRet, everStatus>>

Oplog(a) ==
  /\ pc[a] = P("oplog", "")
  /\ \E o \in OplogOutcomes :
       /\ LocalOutcome(o # "ok")
       /\ started' = [started EXCEPT ![a] = IF o \in {"ok", "apply"} THEN @ \cup {"oplog"} ELSE @]
       /\ IF o = "ok" THEN Goto(a, P("users", "")) ELSE Fail(a, OplogErr(o))
  /\ UNCHANGED <<beating, topo, bcp, ovars, uvars, bvars, hvars, now, ticks, meta, lock, cancelled, tstart, ctxRet, everStatus>>

\* lines 272-282: the current user, then the user/role splice
UsersOutcomes == {"ok", "cusr", "splice"}

UsersErr(o) ==
  CASE o = "cusr" -> Wrap(IoErr, "get current user")
    [] o = "splice" -> Wrap(IoErr, "restore users 'n' roles")
    [] OTHER -> Nil

Users(a) ==
  /\ pc[a] = P("users", "")
  /\ \E o \in UsersOutcomes :
       /\ LocalOutcome(o # "ok")
       /\ started' = [started EXCEPT ![a] = IF o \in {"ok", "splice"} THEN @ \cup {"users"} ELSE @]
       /\ IF o = "ok" THEN Goto(a, P("setrs", StatusDone)) ELSE Fail(a, UsersErr(o))
  /\ UNCHANGED <<beating, topo, bcp, ovars, uvars, bvars, hvars, now, ticks, meta, lock, cancelled, tstart, ctxRet, everStatus>>

\* lines 534-538: MarkFailed, the write of the cluster status
MarkFailedCluster(a) ==
  /\ pc[a] = P("mf1", "")
  /\ \E f \in BOOLEAN :
       /\ DbOutcome(a, f)
       /\ IF f
          THEN /\ Return(a, err[a])
               /\ meta' = meta
          ELSE /\ Goto(a, P("mf2", ""))
               /\ meta' = ChangeRestoreState(meta, StatusError, err[a])
  /\ Hist
  /\ UNCHANGED <<beating, topo, bcp, ovars, uvars, bvars, hvars, now, ticks, lock, cancelled, tstart, started, ctxRet>>

\* MarkFailed marking every entry of the meta as failed
MarkFailedRSAll(a) ==
  /\ pc[a] = P("mf2", "")
  /\ DbOutcome(a, FALSE)
  /\ Return(a, err[a])
  /\ meta' = [meta EXCEPT !.replsets =
                [i \in 1..Len(meta.replsets) |->
                   [meta.replsets[i] EXCEPT !.status = StatusError, !.error = err[a]]]]
  /\ Hist
  /\ UNCHANGED <<beating, topo, bcp, ovars, uvars, bvars, hvars, now, ticks, lock, cancelled, tstart, started, ctxRet>>

\* lines 539-540: MarkFailed, the write of the replset entry
MarkFailedRS(a) ==
  /\ pc[a] = P("mf2", "")
  /\ \E f \in BOOLEAN :
       /\ DbOutcome(a, f)
       /\ Return(a, err[a])
       /\ meta' = IF f THEN meta
                  ELSE ChangeRestoreRSState(meta, rsNameOf(a), StatusError, err[a])
  /\ Hist
  /\ UNCHANGED <<beating, topo, bcp, ovars, uvars, bvars, hvars, now, ticks, lock, cancelled, tstart, started, ctxRet>>

\* Run from line 96 on
AfterResolve(a) ==
  \/ SetMeta(a)
  \/ \E st \in {StatusStarting, StatusRunning, StatusDumpDone} : WaitForStatus(a, st)
  \/ AddRS(a)
  \/ \E st \in {StatusRunning, StatusDumpDone, StatusDone} :
       Reconcile(a, st) \/ ConvPoll(a, st) \/ ConvWrite(a, st)
  \/ Dump(a)
  \/ \E st \in {StatusDumpDone, StatusDone} : SetRS(a, st)
  \/ Oplog(a)
  \/ Users(a)
  \/ MarkFailedCluster(a)
  \/ MarkFailedRS(a)

RunStep(a) ==
  \/ Resolve(a)
  \/ AfterResolve(a)

\* ------------------------------------------------------------ environment
\* An agent is executing Run
Running(a) == pc[a] \notin {Absent, Returned}

\* The clock advances by one step.  A step is longer than the heartbeat
\* cadence (5 s), so within it the heartbeat goroutine of Run (lines 110-124)
\* has called RestoreHB, and every lock heartbeat task that is still beating
\* has refreshed its lock.  A failing RestoreHB is only logged (117-119).
Tick ==
  /\ ticks < MaxTicks
  /\ now' = now + ClockStep
  /\ ticks' = ticks + 1
  /\ \E f \in BOOLEAN :
       /\ IF hbOn THEN DbOutcome("c", f) ELSE (~f /\ faults' = faults)
       /\ meta' = IF hbOn /\ ~f THEN RestoreHB(meta, now') ELSE meta
  /\ lock' = [r \in RsNames |->
                IF lock[r].exists /\ beating[r] /\ (\E a \in Agents : Running(a) /\ rsNameOf(a) = r)
                THEN [lock[r] EXCEPT !.hb = now'] ELSE lock[r]]
  /\ UNCHANGED <<beating, topo, bcp, ovars, uvars, bvars, hvars, hbOn, cancelled, pc, err, tstart, started, ctxRet, everStatus>>

\* the lock heartbeat task of a replica set's agent stops (the agent is
\* frozen or partitioned from the database)
StallLock(r) ==
  /\ topo # "takeover"
  /\ Cardinality({x \in RsNames : ~beating[x]}) < MaxStalls
  /\ beating[r]
  /\ lock[r].exists
  /\ \E a \in Agents : Running(a) /\ rsNameOf(a) = r
  /\ beating' = [beating EXCEPT ![r] = FALSE]
  /\ UNCHANGED <<topo, bcp, ovars, uvars, bvars, hvars, now, ticks, faults, meta, lock, hbOn, cancelled, pc, err, tstart,
                 started, ctxRet, everStatus>>

\* the agent's context is cancelled while its Run is executing
Cancel(a) ==
  /\ Running(a)
  /\ faults < FaultBudget
  /\ ~cancelled[a]
  /\ cancelled' = [cancelled EXCEPT ![a] = TRUE]
  /\ faults' = faults + 1
  /\ UNCHANGED <<beating, topo, bcp, ovars, uvars, bvars, hvars, now, ticks, meta, lock, hbOn, pc, err, tstart,
                 started, ctxRet, everStatus>>

\* the agent releases the lock of its replica set after Run returned
LockRelease(a) ==
  /\ pc[a] = Returned
  /\ lock[rsNameOf(a)].exists
  /\ lock' = [lock EXCEPT ![rsNameOf(a)] = NoLock]
  /\ UNCHANGED <<beating, topo, bcp, ovars, uvars, bvars, hvars, now, ticks, faults, meta, hbOn, cancelled, pc, err, tstart,
                 started, ctxRet, everStatus>>

Next ==
  \/ \E a \in Agents : RunStep(a)
  \/ Tick
  \/ \E a \in Agents : Cancel(a)
  \/ \E r \in RsNames : StallLock(r)
  \/ \E a \in Agents : LockRelease(a)

Spec == Init /\ [][Next]_vars

\* ------------------------------------------------ a coordinator that dies
\* the coordinator's process dies while its Run is executing: the heartbeat
\* goroutine and the lock heartbeat task end with it, nothing deferred runs
\* and its lock is not released
Crashed == P("crashed", "")

Crash ==
  /\ Running("c")
  /\ pc["c"] # Crashed
  /\ pc' = [pc EXCEPT !["c"] = Crashed]
  /\ hbOn' = FALSE
  /\ beating' = [beating EXCEPT ![rsNameOf("c")] = FALSE]
  /\ UNCHANGED <<topo, bcp, ovars, uvars, bvars, hvars, now, ticks, faults, meta, lock, cancelled, err,
                 tstart, started, ctxRet, everStatus>>

StuckInit ==
  /\ Init
  /\ topo = "sharded"
  /\ bcp = [status |-> StatusDone, names |-> LocalSets(topo), compression |-> "s2"]

\* the agents, the clock and the crash; every call of an agent may fail
StuckNext ==
  \/ \E a \in Agents : RunStep(a)
  \/ Tick
  \/ \E a \in Agents : LockRelease(a)
  \/ Crash

StuckSpec == StuckInit /\ [][StuckNext]_vars

\* ------------------------------------- the heartbeat goroutine (108-124)
\* The goroutine is started in the step that writes the restore meta (103-
\* 122), so it exists when the meta does; hbOn is "hbstop is still open".
HbAlive == meta.exists /\ ~hbDone

\* line 120: hbstop is closed (the deferred close of line 109 has run)
StopReady == meta.exists /\ ~hbOn

\* the tick case of the select can always be served
TickPendingAlways == TRUE

\* line 115: a tick is waiting in tk.C
TickPending == tkReady

HbInit ==
  /\ Init
  /\ topo \in {"replset", "sharded"}
  /\ bcp = [status |-> StatusDone, names |-> LocalSets(topo), compression |-> "s2"]

\* the clock advances by one step and the ticker of line 111 fires; the
\* lock heartbeat tasks refresh their locks
HbClock ==
  /\ ticks < MaxTicks
  /\ now' = now + ClockStep
  /\ ticks' = ticks + 1
  /\ tkReady' = HbAlive
  /\ lock' = [r \in RsNames |->
                IF lock[r].exists /\ beating[r] /\ (\E a \in Agents : Running(a) /\ rsNameOf(a) = r)
                THEN [lock[r] EXCEPT !.hb = now'] ELSE lock[r]]
  /\ UNCHANGED <<beating, topo, bcp, ovars, uvars, bvars, hbDone, late, faults, meta, hbOn,
                 cancelled, pc, err, tstart, started, ctxRet, everStatus>>

\* lines 115-119: the select serves tk.C; a failing RestoreHB is logged
HbBeat ==
  /\ HbAlive
  /\ TickPending
  /\ tkReady' = FALSE
  /\ late' = (late \/ StopReady)
  /\ \E f \in BOOLEAN :
       /\ LocalOutcome(f)
       /\ meta' = IF f THEN meta ELSE RestoreHB(meta, now)
  /\ UNCHANGED <<beating, topo, bcp, ovars, uvars, bvars, hbDone, now, ticks, lock, hbOn,
                 cancelled, pc, err, tstart, started, ctxRet, everStatus>>

\* lines 120-121: the select serves hbstop and the goroutine returns
HbStop ==
  /\ HbAlive
  /\ StopReady
  /\ hbDone' = TRUE
  /\ UNCHANGED <<beating, topo, bcp, ovars, uvars, bvars, tkReady, late, now, ticks, faults,
                 meta, lock, hbOn, cancelled, pc, err, tstart, started, ctxRet, everStatus>>

HbNext ==
  \/ \E a \in Agents : RunStep(a)
  \/ HbClock
  \/ HbBeat
  \/ HbStop
  \/ \E a \in Agents : LockRelease(a)

HbSpec == HbInit /\ [][HbNext]_vars

\* ------------------------------------ the source of the backup meta (Run)
ErrNoDocuments == NewErr("mongo: no documents in result")

\* errors.Cause: the innermost error of the chain
Cause(e) == IF e = Nil THEN Nil ELSE <<e[Len(e)]>>

\* cn.GetBackupMeta(name): the document, ErrNoDocuments when there is none,
\* or the error of a failed read
GetBackupMeta(fails) ==
  IF fails THEN [m |-> NoBackup, err |-> Wrap(DbErr, "get")]
  ELSE IF bcpDb.exists THEN [m |-> bcpDb.meta, err |-> Nil]
  ELSE [m |-> NoBackup, err |-> Wrap(ErrNoDocuments, "get")]

\* getMetaFromStore: SourceReader of the metadata file and its JSON decode
getMetaFromStore(fails) ==
  IF fails \/ bcpStore.kind = "none"
  THEN [m |-> NoBackup, err |-> Wrap(IoErr, "get from store")]
  ELSE IF bcpStore.kind = "corrupt"
  THEN [m |-> NoBackup, err |-> Wrap(NewErr("json"), "decode")]
  ELSE [m |-> bcpStore.meta, err |-> Nil]

\* the blob store is read after every error of the database read
ViaStoreOnAnyError(e) == e # Nil

\* line 61: the blob store is read when the cause is ErrNoDocuments
ViaStore(e) == Cause(e) = ErrNoDocuments

\* the meta that cmd.BackupName resolves to when no call fails
Resolved ==
  IF bcpDb.exists THEN bcpDb.meta
  ELSE IF bcpStore.kind = "json" THEN bcpStore.meta
  ELSE [status |-> StatusDone, names |-> LocalSets(topo), compression |-> "s2"]

ResolveInit ==
  /\ RestoreInit
  /\ topo \in {"replset", "sharded"}
  /\ OplogIdle
  /\ SwapIdle
  /\ bcpDb \in {[exists |-> FALSE, meta |-> NoBackup]}
                 \cup {[exists |-> TRUE, meta |-> m] : m \in BackupMetas(topo)}
  /\ bcpStore \in {[kind |-> "none", meta |-> NoBackup], [kind |-> "corrupt", meta |-> NoBackup]}
                    \cup {[kind |-> "json", meta |-> m] : m \in BackupMetas(topo)}
  /\ bcp = Resolved
  /\ from = [a \in Agents |-> NotRead]
  /\ HbIdle

\* lines 55-94 with the two sources of the backup meta
ResolveFrom(a) ==
  /\ pc[a] = P("init", "")
  /\ \E f \in {"ok", "storage", "meta", "store", "ismaster"} :
       LET gm == GetBackupMeta(f = "meta")
           got == IF ViaStore(gm.err) THEN getMetaFromStore(f = "store") ELSE gm
           e == CASE f = "storage" -> Wrap(DbErr, "get backup storage")
                  [] f # "storage" /\ got.err # Nil -> Wrap(got.err, "get backup metadata")
                  [] f = "ismaster" /\ got.err = Nil -> Wrap(IoErr, "get isMaster data")
                  [] OTHER -> ResolveErr(got.m, rsNameOf(a))
       IN /\ IF f \in {"ismaster", "store"} THEN LocalOutcome(TRUE) ELSE DbOutcome(a, f # "ok")
          /\ cancelled[a] => f = "storage"
          /\ f = "store" => ViaStore(gm.err)
          /\ f = "ismaster" => (got.err = Nil /\ got.m.status = StatusDone)
          /\ from' = [from EXCEPT ![a] =
                        IF f = "storage" THEN @
                        ELSE [took |-> IF got.err # Nil THEN ""
                                       ELSE IF ViaStore(gm.err) THEN "store" ELSE "db",
                              store |-> ViaStore(gm.err),
                              m |-> got.m]]
          /\ IF e # Nil
             THEN Return(a, e)
             ELSE Goto(a, IF IsLeader(a) THEN P("setmeta", "") ELSE P("wait", StatusStarting))
  /\ UNCHANGED <<beating, topo, bcp, ovars, uvars, hvars, bcpDb, bcpStore, now, ticks, meta, lock,
                 cancelled, tstart, started, ctxRet, everStatus>>

\* the rest of Run, no call of which fails
ResolvedRunStep(a) == AfterResolve(a) /\ faults' = faults

ResolveNext ==
  \/ \E a \in Agents : ResolveFrom(a)
  \/ \E a \in Agents : ResolvedRunStep(a)
  \/ Tick
  \/ \E a \in Agents : LockRelease(a)

ResolveSpec == ResolveInit /\ [][ResolveNext]_vars

\* ------------------------------------------------- backup.Oplog (oplog.go)
\* primitive.Timestamp: seconds T and ordinal I
Timestamps == [T : 0..MaxT, I : 0..MaxI]

\* primitive.CompareTimestamp(tp, tp2): -1 if tp < tp2, 0 if equal, +1 if
\* tp > tp2, in the order of (T, I)
CompareTimestamp(tp, tp2) ==
  IF tp = tp2 THEN 0
  ELSE IF tp.T > tp2.T \/ (tp.T = tp2.T /\ tp.I > tp2.I) THEN 1
  ELSE -1

OperationNoop == "n"

\* an oplog document, reduced to the fields WriteTo looks up
OplogDocs == [ts : {t \in Timestamps : t.T > 0}, op : {OperationNoop, "i"}]

\* len([]byte(cur.Current)) of a document
RawLen(d) == IF d.op = OperationNoop THEN 1 ELSE 2

\* the oplog is ordered by ts, strictly
Oplogs ==
  {s \in UNION {[1..n -> OplogDocs] : n \in 0..MaxOps} :
     \A i \in 1..(Len(s) - 1) : CompareTimestamp(s[i].ts, s[i + 1].ts) = -1}

\* Find {"ts": {"$gte": start}}: the documents the cursor yields, in order
FindFrom(log, start) ==
  LET Gte(d) == CompareTimestamp(d.ts, start) # -1
  IN SelectSeq(log, Gte)

CurDocs == FindFrom(oplog, ot.start)

\* a record past the end of the span that is not a noop
PastEndUnlessNoop(d) == CompareTimestamp(ot.end, d.ts) = -1 /\ d.op # OperationNoop

\* the record read is past the end of the span
PastEnd(d) == CompareTimestamp(ot.end, d.ts) = -1

IsNoop(d) == d.op = OperationNoop

\* the state of the restore, which WriteTo does not touch
rvars == <<topo, bcp, bvars, hvars, now, ticks, faults, meta, lock, hbOn, beating, cancelled, pc, err,
           tstart, started, ctxRet, everStatus>>

\* return n, e; the deferred cur.Close runs
WriteToReturn(n, e) ==
  /\ ret' = [done |-> TRUE, n |-> n, err |-> e]
  /\ cur' = [cur EXCEPT !.open = FALSE]

OplogInit ==
  /\ RestoreInit
  /\ topo = "replset"
  /\ bcp = [status |-> StatusDone, names |-> LocalSets(topo), compression |-> "s2"]
  /\ ot \in [start : Timestamps, end : Timestamps]
  /\ oplog \in Oplogs
  /\ cur = [open |-> FALSE, pos |-> 0]
  /\ out = <<>>
  /\ written = 0
  /\ ret = [done |-> FALSE, n |-> 0, err |-> Nil]
  /\ SwapIdle
  /\ BackupInDb
  /\ HbIdle

\* WriteTo up to the loop: the span check, the collection name, Find
WriteToOpen ==
  /\ ~ret.done
  /\ ~cur.open
  /\ cur.pos = 0
  /\ IF ot.start.T = 0 \/ ot.end.T = 0
     THEN /\ ret' = [done |-> TRUE, n |-> 0, err |-> NewErr("oplog TailingSpan should be set")]
          /\ cur' = cur
     ELSE \E o \in {"ok", "name", "find"} :
            CASE o = "name" ->
                   /\ ret' = [done |-> TRUE, n |-> 0,
                              err |-> Wrap(NewErr("get isMaster document"),
                                           "determine oplog collection name")]
                   /\ cur' = cur
              [] o = "find" ->
                   /\ ret' = [done |-> TRUE, n |-> 0,
                              err |-> Wrap(NewErr("find"), "get the oplog cursor")]
                   /\ cur' = cur
              [] OTHER ->
                   /\ cur' = [open |-> TRUE, pos |-> 0]
                   /\ ret' = ret
  /\ UNCHANGED <<ot, oplog, out, written>>
  /\ UNCHANGED rvars
  /\ UNCHANGED uvars

\* one pass of the loop: cur.Next yields the next document
ReadOp ==
  /\ cur.open
  /\ cur.pos < Len(CurDocs)
  /\ LET d == CurDocs[cur.pos + 1]
     IN IF PastEnd(d)
        THEN /\ ret' = [done |-> TRUE, n |-> written, err |-> Nil]
             /\ cur' = [open |-> FALSE, pos |-> cur.pos + 1]
             /\ UNCHANGED <<out, written>>
        ELSE IF IsNoop(d)
        THEN /\ cur' = [cur EXCEPT !.pos = @ + 1]
             /\ UNCHANGED <<out, written, ret>>
        ELSE \E n \in 0..RawLen(d) :
               \* w.Write accepts n bytes and fails unless it accepted all
               /\ out' = Append(out, [doc |-> d, n |-> n])
               /\ IF n = RawLen(d)
                  THEN /\ written' = written + n
                       /\ cur' = [cur EXCEPT !.pos = @ + 1]
                       /\ ret' = ret
                  ELSE /\ ret' = [done |-> TRUE, n |-> written,
                                  err |-> Wrap(NewErr("write"), "write to pipe")]
                       /\ cur' = [open |-> FALSE, pos |-> cur.pos + 1]
                       /\ written' = written
  /\ UNCHANGED <<ot, oplog>>
  /\ UNCHANGED rvars
  /\ UNCHANGED uvars

\* cur.Next returns false: the cursor failed, or the server has closed it
\* after the last document and cur.Err() is nil
CursorEnds ==
  /\ cur.open
  /\ \/ WriteToReturn(written, NewErr("cursor"))
     \/ /\ cur.pos = Len(CurDocs)
        /\ WriteToReturn(written, Nil)
  /\ UNCHANGED <<ot, oplog, out, written>>
  /\ UNCHANGED rvars
  /\ UNCHANGED uvars

OplogNext ==
  \/ WriteToOpen
  \/ ReadOp
  \/ CursorEnds

OplogSpec == OplogInit /\ [][OplogNext]_vars

\* ------------------------------------------- Restore.swapUsers (restore.go)
\* _id of the documents: "<db>.<user>" and "<db>.<role>", in natural order
UserIds == <<"admin.u1", "admin.u2">>
RoleIds == <<"admin.r1", "admin.r2">>

\* a document: its _id and the rest of it; the documents the node had carry
\* "node", the ones the dump put into the temporary collections "dump"
DocsOf(ids, v) == {[id |-> ids[i], v |-> v] : i \in 1..Len(ids)}

\* Find: the documents of a collection that pass the filter, in natural
\* order of ids, behind a cursor
RECURSIVE InOrder(_, _)
InOrder(ids, docs) ==
  IF ids = <<>> THEN <<>>
  ELSE (IF \E d \in docs : d.id = Head(ids)
        THEN <<CHOOSE d \in docs : d.id = Head(ids)>> ELSE <<>>)
       \o InOrder(Tail(ids), docs)

Cursor(ids, docs) == [rest |-> InOrder(ids, docs), got |-> 0, err |-> FALSE]

\* eroles: DB + "." + Role of every role in exclude.UserRoles
eroles == exclude.UserRoles

\* user: DB + "." + User of exclude.Users[0], or ""
user == IF Len(exclude.Users) > 0 THEN exclude.Users[1] ELSE ""

\* the next document of the cursor needs a getMore: the batch is used up
NeedsGetMore(c) == c.got > 0 /\ c.got % BatchSize = 0

SwapReturn(e) == spc' = "returned" /\ serr' = e

SwapInit ==
  /\ RestoreInit
  /\ topo = "replset"
  /\ bcp = [status |-> StatusDone, names |-> LocalSets(topo), compression |-> "s2"]
  /\ OplogIdle
  /\ BackupInDb
  /\ HbIdle
  /\ exclude \in [Users : {<<>>} \cup {<<UserIds[i]>> : i \in 1..Len(UserIds)}
                            \cup {<<UserIds[i], UserIds[j]>> :
                                    <<i, j>> \in {p \in (1..Len(UserIds)) \X (1..Len(UserIds)) :
                                                    p[1] # p[2]}},
                   UserRoles : SUBSET Range(RoleIds)]
  /\ usersC \in SUBSET DocsOf(UserIds, "node")
  /\ rolesC \in SUBSET DocsOf(RoleIds, "node")
  /\ tmpUsersC \in [exists : {TRUE}, docs : SUBSET DocsOf(UserIds, "dump")]
  /\ tmpRolesC \in [exists : {TRUE}, docs : SUBSET DocsOf(RoleIds, "dump")]
  /\ curr = [rest |-> <<>>, got |-> 0, err |-> FALSE]
  /\ curU = [rest |-> <<>>, got |-> 0, err |-> FALSE]
  /\ spc = "findRoles"
  /\ serr = Nil
  /\ pre = [users |-> usersC, roles |-> rolesC,
            tmpUsers |-> tmpUsersC.docs, tmpRoles |-> tmpRolesC.docs]

\* Find on tmpRoles with _id $nin eroles
FindRoles ==
  /\ spc = "findRoles"
  /\ \E ok \in BOOLEAN :
       IF ok
       THEN /\ curr' = Cursor(RoleIds, {d \in tmpRolesC.docs : d.id \notin eroles})
            /\ spc' = "delRoles"
            /\ serr' = serr
       ELSE /\ SwapReturn(NewErr("create cursor for tmpRoles"))
            /\ curr' = curr
  /\ UNCHANGED <<exclude, usersC, rolesC, tmpUsersC, tmpRolesC, curU, pre>>
  /\ UNCHANGED rvars
  /\ UNCHANGED ovars

\* DeleteMany on system.roles with _id $nin eroles
DeleteRoles ==
  /\ spc = "delRoles"
  /\ \E ok \in BOOLEAN :
       IF ok
       THEN /\ rolesC' = {d \in rolesC : d.id \in eroles}
            /\ spc' = "insRoles"
            /\ serr' = serr
       ELSE /\ SwapReturn(NewErr("delete current roles"))
            /\ rolesC' = rolesC
  /\ UNCHANGED <<exclude, usersC, tmpUsersC, tmpRolesC, curr, curU, pre>>
  /\ UNCHANGED rvars
  /\ UNCHANGED ovars

\* one evaluation of `for curr.Next(ctx)` and, when it is true, the body:
\* o is "ok", "next" (Next is false because the getMore failed), "decode"
\* or "insert"
InsertRole ==
  /\ spc = "insRoles"
  /\ IF curr.rest = <<>>
     THEN /\ spc' = "findUsers"
          /\ UNCHANGED <<rolesC, curr, serr>>
     ELSE \E o \in {"ok", "next", "decode", "insert"} :
            /\ o = "next" => NeedsGetMore(curr)
            /\ CASE o = "next" ->
                       \* the loop ends; curr.Err() is not read
                       /\ curr' = [curr EXCEPT !.err = TRUE]
                       /\ spc' = "findUsers"
                       /\ UNCHANGED <<rolesC, serr>>
                 [] o = "decode" ->
                       /\ SwapReturn(NewErr("decode role"))
                       /\ UNCHANGED <<rolesC, curr>>
                 [] o = "insert" \/ (\E d \in rolesC : d.id = Head(curr.rest).id) ->
                       /\ SwapReturn(NewErr("insert role"))
                       /\ UNCHANGED <<rolesC, curr>>
                 [] OTHER ->
                       /\ rolesC' = rolesC \cup {Head(curr.rest)}
                       /\ curr' = [curr EXCEPT !.rest = Tail(@), !.got = @ + 1]
                       /\ UNCHANGED <<spc, serr>>
  /\ UNCHANGED <<exclude, usersC, tmpUsersC, tmpRolesC, curU, pre>>
  /\ UNCHANGED rvars
  /\ UNCHANGED ovars

\* Find on tmpUsers with _id $ne user
FindUsers ==
  /\ spc = "findUsers"
  /\ \E ok \in BOOLEAN :
       IF ok
       THEN /\ curU' = Cursor(UserIds, {d \in tmpUsersC.docs : d.id # user})
            /\ spc' = "delUsers"
            /\ serr' = serr
       ELSE /\ SwapReturn(NewErr("create cursor for tmpUsers"))
            /\ curU' = curU
  /\ UNCHANGED <<exclude, usersC, rolesC, tmpUsersC, tmpRolesC, curr, pre>>
  /\ UNCHANGED rvars
  /\ UNCHANGED ovars

\* DeleteMany on system.users with _id $ne user
DeleteUsers ==
  /\ spc = "delUsers"
  /\ \E ok \in BOOLEAN :
       IF ok
       THEN /\ usersC' = {d \in usersC : d.id = user}
            /\ spc' = "insUsers"
            /\ serr' = serr
       ELSE /\ SwapReturn(NewErr("delete current users"))
            /\ usersC' = usersC
  /\ UNCHANGED <<exclude, rolesC, tmpUsersC, tmpRolesC, curr, curU, pre>>
  /\ UNCHANGED rvars
  /\ UNCHANGED ovars

\* one evaluation of `for cur.Next(ctx)` and, when it is true, the body
InsertUser ==
  /\ spc = "insUsers"
  /\ IF curU.rest = <<>>
     THEN /\ spc' = "dropRoles"
          /\ UNCHANGED <<usersC, curU, serr>>
     ELSE \E o \in {"ok", "next", "decode", "insert"} :
            /\ o = "next" => NeedsGetMore(curU)
            /\ CASE o = "next" ->
                       /\ curU' = [curU EXCEPT !.err = TRUE]
                       /\ spc' = "dropRoles"
                       /\ UNCHANGED <<usersC, serr>>
                 [] o = "decode" ->
                       /\ SwapReturn(NewErr("decode user"))
                       /\ UNCHANGED <<usersC, curU>>
                 [] o = "insert" \/ (\E d \in usersC : d.id = Head(curU.rest).id) ->
                       /\ SwapReturn(NewErr("insert user"))
                       /\ UNCHANGED <<usersC, curU>>
                 [] OTHER ->
                       /\ usersC' = usersC \cup {Head(curU.rest)}
                       /\ curU' = [curU EXCEPT !.rest = Tail(@), !.got = @ + 1]
                       /\ UNCHANGED <<spc, serr>>
  /\ UNCHANGED <<exclude, rolesC, tmpUsersC, tmpRolesC, curr, pre>>
  /\ UNCHANGED rvars
  /\ UNCHANGED ovars

\* Drop of tmpRoles
DropRoles ==
  /\ spc = "dropRoles"
  /\ \E ok \in BOOLEAN :
       IF ok
       THEN /\ tmpRolesC' = [exists |-> FALSE, docs |-> {}]
            /\ spc' = "dropUsers"
            /\ serr' = serr
       ELSE /\ SwapReturn(NewErr("drop tmp roles collection"))
            /\ tmpRolesC' = tmpRolesC
  /\ UNCHANGED <<exclude, usersC, rolesC, tmpUsersC, curr, curU, pre>>
  /\ UNCHANGED rvars
  /\ UNCHANGED ovars

\* Drop of tmpUsers, and return nil
DropUsers ==
  /\ spc = "dropUsers"
  /\ \E ok \in BOOLEAN :
       IF ok
       THEN /\ tmpUsersC' = [exists |-> FALSE, docs |-> {}]
            /\ SwapReturn(Nil)
       ELSE /\ SwapReturn(NewErr("drop tmp users collection"))
            /\ tmpUsersC' = tmpUsersC
  /\ UNCHANGED <<exclude, usersC, rolesC, tmpRolesC, curr, curU, pre>>
  /\ UNCHANGED rvars
  /\ UNCHANGED ovars

SwapNext ==
  \/ FindRoles
  \/ DeleteRoles
  \/ InsertRole
  \/ FindUsers
  \/ DeleteUsers
  \/ InsertUser
  \/ DropRoles
  \/ DropUsers

SwapSpec == SwapInit /\ [][SwapNext]_vars

\* ----------------------------------------------------------------- claims
ConvStatuses == {StatusRunning, StatusDumpDone, StatusDone}

\* the meta m holds an entry of replset name with status st
HasEntry(m, name, st) ==
  \E i \in 1..Len(m.replsets) : m.replsets[i].name = name /\ m.replsets[i].status = st

AllReached(m, shards, st) == \A k \in 1..Len(shards) : HasEntry(m, shards[k], st)

\* C1: converged issues the write of cluster status S only at a poll whose
\* meta holds, for every shard of the participating list, an entry with
\* status S (also with duplicate entries or with a shard without entry).
C1_WriteOnlyIfAllReached ==
  [][\A a \in Agents, st \in ConvStatuses :
       (pc[a] = P("conv", st) /\ pc'[a] = P("convw", st))
         => AllReached(meta, Participating(a), st)]_vars

Rank(s) ==
  CASE s = StatusStarting -> 0
    [] s = StatusRunning -> 1
    [] s = StatusDumpDone -> 2
    [] s = StatusDone -> 3
    [] OTHER -> 4

\* C2: the cluster status never moves backwards in Starting, Running,
\* DumpDone, Done, and once it is Error or Done no write changes it.
C2_StatusMonotone ==
  [][meta.exists =>
       /\ meta.status \in {StatusError, StatusDone} => meta'.status = meta.status
       /\ Rank(meta'.status) >= Rank(meta.status)]_vars

\* C3: an agent is in the oplog replay stage only after the cluster status
\* has been DumpDone, and in the dump replay stage only after it has been
\* Running.
C3_StagesAfterClusterStatus ==
  \A a \in Agents :
    /\ (pc[a].at \in {"oplog", "users"} \/ "oplog" \in started[a])
         => StatusDumpDone \in everStatus
    /\ (pc[a].at = "dump" \/ "dump" \in started[a])
         => StatusRunning \in everStatus

\* C4: a waitForStatus(S) tick that reads cluster status Error makes Run
\* return a non-nil error instead of going on to the next stage.
C4_ErrorStatusStopsRun ==
  [][\A a \in Agents, st \in {StatusStarting, StatusRunning, StatusDumpDone} :
       (pc[a] = P("wait", st) /\ ~cancelled[a] /\ meta.exists
          /\ meta.status = StatusError /\ pc'[a] # pc[a])
         => (pc'[a].at \in {"mf1", "returned"} /\ err'[a] # Nil)]_vars

\* C5: after a wait of Run ended through the cancelled context, the agent
\* starts no further pipeline stage (a consequence of the claim).
C5_NoStageAfterCancel ==
  [][\A a \in Agents : ctxRet[a] => started'[a] = started[a]]_vars

\* the entry of replset name carries status Error and the text e
EntryFailed(m, name, e) ==
  \E i \in 1..Len(m.replsets) :
    /\ m.replsets[i].name = name
    /\ m.replsets[i].status = StatusError
    /\ m.replsets[i].error = e

\* C6: when Run returns a non-nil error, the agent's replset entry has been
\* written with status Error and the error's text.
C6_FailureRecorded ==
  [][\A a \in Agents :
       (pc[a] # Returned /\ pc'[a] = Returned /\ err'[a] # Nil)
         => EntryFailed(meta', rsNameOf(a), err'[a])]_vars

\* ------------------------------------------- the coordinator's poll, stated
\* what converged returns for the meta, the locks and the cluster time of
\* the current state
PollOf(st) == Converged(meta, lock, now, Participating("c"), st)

\* the coordinator is in the converge loop for st
Polling(st) == pc["c"] = P("conv", st) /\ meta.exists

\* entries of the participating shards
PEntries == {i \in 1..Len(meta.replsets) : meta.replsets[i].name \in Range(Participating("c"))}
ErrIdx == {i \in PEntries : meta.replsets[i].status = StatusError}
StaleLock(n) == lock[n].exists /\ lock[n].hb + StaleFrameSec < now
StaleIdx == {i \in PEntries : StaleLock(meta.replsets[i].name)}

\* place of entry i in the scan: shards outermost, entries innermost
ScanPos(i) ==
  LET shards == Participating("c")
      k == CHOOSE x \in 1..Len(shards) : shards[x] = meta.replsets[i].name
  IN (k - 1) * Len(meta.replsets) + i

\* entries at which the scan for st returns, and the first of them
Hits(st) ==
  {i \in PEntries :
     \/ st # StatusDone /\ StaleLock(meta.replsets[i].name)
     \/ meta.replsets[i].status = StatusError /\ st # StatusError}
FirstHit(st) == CHOOSE i \in Hits(st) : \A j \in Hits(st) : ScanPos(i) <= ScanPos(j)
FirstHitStale(st) == st # StatusDone /\ StaleLock(meta.replsets[FirstHit(st)].name)

\* e is the error of a poll that ended by the timeout ticker or a failed read
NoScanErr(e) ==
  \E i \in 1..Len(e) :
    e[i].s \in {"reached converge timeout", "get backup metadata", "read cluster time",
                 "unable to read lock for shard"}

\* the coordinator leaves the converge loop for st by a poll whose reads
\* succeeded (not by the timeout ticker, a failed read or the context)
PollReturns(st) ==
  /\ Polling(st)
  /\ pc'["c"] # pc["c"]
  /\ pc'["c"] # AfterConv(st)
  /\ ~NoScanErr(err'["c"])

MarkFailedWrites ==
  (pc["c"] = P("mf1", "") /\ pc'["c"] = P("mf2", ""))
    => (meta'.status = StatusError /\ meta'.error = err["c"])

PendingNoLock(st) ==
  {i \in PEntries :
     /\ meta.replsets[i].status \notin {st, StatusError}
     /\ ~lock[meta.replsets[i].name].exists}

StepOf(a) == pc'[a] # pc[a]

\* the entries not named after rs are left as they are, and every added
\* entry is named rs
OthersKept(m1, m2, rs) ==
  /\ Len(m2.replsets) >= Len(m1.replsets)
  /\ \A i \in 1..Len(m2.replsets) :
       IF i <= Len(m1.replsets)
       THEN m2.replsets[i].name = m1.replsets[i].name
            /\ (m1.replsets[i].name # rs => m2.replsets[i] = m1.replsets[i])
       ELSE m2.replsets[i].name = rs

\* C10 as claimed: a step of an agent that is not the coordinator changes
\* only the entries of its own replica set, never the cluster status or error.
C10_WorkerWritesOwnEntryOnly ==
  [][\A a \in Agents :
       (StepOf(a) /\ ~IsLeader(a))
         => /\ meta'.status = meta.status
            /\ meta'.error = meta.error
            /\ OthersKept(meta, meta', rsNameOf(a))]_vars

\* C10 amended: a step of an agent that is not the coordinator changes, of
\* the restore meta, only the entries named after its own replica set and,
\* in MarkFailed on failure, the cluster status and error, which it sets to
\* Error and the text of its error; the statuses Starting, Running, DumpDone
\* and Done are written to the cluster only by the coordinator.
C10_WorkerWrites ==
  [][\A a \in Agents :
       /\ (StepOf(a) /\ ~IsLeader(a))
            => /\ meta'.exists = meta.exists
               /\ meta'.hb = meta.hb
               /\ OthersKept(meta, meta', rsNameOf(a))
               /\ (meta'.status # meta.status \/ meta'.error # meta.error)
                    => /\ pc[a] = P("mf1", "")
                       /\ meta'.status = StatusError
                       /\ meta'.error = err[a]
                       /\ meta'.replsets = meta.replsets
       /\ (StepOf(a) /\ meta'.status # meta.status /\ meta'.status # StatusError)
            => IsLeader(a)]_vars

\* the shard agent a has failed and MarkFailed has written both the cluster
\* status and its own entry, next to the coordinator's untouched entry
C10_Witness ==
  /\ pc["a"] = Returned
  /\ err["a"] # Nil
  /\ meta.status = StatusError
  /\ meta.error = err["a"]
  /\ EntryFailed(meta, "rs1", err["a"])
  /\ HasEntry(meta, "cfg", StatusRunning)

\* e carries the message m at some level of its wrap chain
HasMsg(e, m) == \E i \in 1..Len(e) : e[i].s = m

\* C11: the convergence to DumpDone and to Done is not bounded by
\* WaitActionStart. A step that ends the coordinator's polling for one of
\* these statuses is either the move to the write of the status, at a poll
\* that found every participating shard at the status; or the return through
\* the cancelled context; or a return with the error of a failed read, of a
\* lost shard (a stale lock, never for Done) or of a shard's entry with
\* status Error. The error never is errConvergeTimeOut, also after more than
\* WaitActionStart in the loop, and neither is the error of the write.
C11_LaterHopsUnbounded ==
  [][\A st \in {StatusDumpDone, StatusDone} :
       /\ (Polling(st) /\ pc'["c"] # pc["c"])
            => /\ ~HasMsg(err'["c"], "reached converge timeout")
               /\ ~HasMsg(err'["c"], "couldn't get response from all shards")
               /\ \/ /\ pc'["c"] = P("convw", st)
                     /\ AllReached(meta, Participating("c"), st)
                  \/ /\ cancelled["c"]
                     /\ pc'["c"] = AfterConv(st)
                     /\ err'["c"] = Nil
                  \/ /\ pc'["c"] = P("mf1", "")
                     /\ \/ HasMsg(err'["c"], "get backup metadata")
                        \/ HasMsg(err'["c"], "read cluster time")
                        \/ HasMsg(err'["c"], "unable to read lock for shard")
                        \/ /\ HasMsg(err'["c"], "lost shard, last beat ts")
                           /\ st # StatusDone
                           /\ StaleIdx # {}
                        \/ /\ HasMsg(err'["c"], "restore on the shard failed with")
                           /\ ErrIdx # {}
       /\ (pc["c"] = P("convw", st) /\ pc'["c"] # pc["c"])
            => ~HasMsg(err'["c"], "reached converge timeout")]_vars

\* the coordinator's polling for DumpDone ends with the write of the status
\* after more than WaitActionStart in the loop
C11_Witness ==
  /\ pc["c"] = P("convw", StatusDumpDone)
  /\ now > tstart["c"] + WaitActionStart
  /\ topo = "sharded"
  /\ err["c"] = Nil

\* WaitActionStart has elapsed in the coordinator's loop for Running
Expired == pc["c"] = P("conv", StatusRunning) /\ now >= tstart["c"] + WaitActionStart

\* a participating shard none of whose entries was inserted before the
\* timeout of the coordinator's loop expired
LateShards ==
  {k \in 1..Len(Participating("c")) :
     ~\E i \in 1..Len(meta.replsets) :
        /\ meta.replsets[i].name = Participating("c")[k]
        /\ meta.replsets[i].startTS < tstart["c"] + WaitActionStart}

\* Run's error for the converge timeout
TimeoutText ==
  <<Tok("couldn't get response from all shards", "", 0),
    Tok("convergeClusterWithTimeout", "", 0),
    Tok("reached converge timeout", "", 0)>>

PollCadence == 1

\* every participating shard has an entry inserted before the timeout of
\* the coordinator's loop expires, with a poll tick still due in between
AllInTime ==
  \A k \in 1..Len(Participating("c")) :
    \E i \in 1..Len(meta.replsets) :
       /\ meta.replsets[i].name = Participating("c")[k]
       /\ meta.replsets[i].startTS + PollCadence < tstart["c"] + WaitActionStart

BadBackup(a) == bcp.status # StatusDone \/ rsNameOf(a) \notin bcp.names

\* C15: an agent whose backup meta is not Done, or lacks the entry of its
\* replica set, never gets past the checks of the backup meta: it starts no
\* stage of the restore, a coordinator writes no restore meta and starts no
\* heartbeat goroutine, another agent adds no entry, and when its Run has
\* returned it has returned an error.
C15_BadBackupRejected ==
  \A a \in Active(topo) :
    BadBackup(a) =>
      /\ pc[a] \in {P("init", ""), Returned}
      /\ started[a] = {}
      /\ pc[a] = Returned => err[a] # Nil
      /\ IsLeader(a) => (meta = NoMeta /\ ~hbOn)
      /\ ~IsLeader(a) =>
           ~\E i \in 1..Len(meta.replsets) : meta.replsets[i].name = rsNameOf(a)

\* the shard agent was rejected for the missing entry of its replica set
\* while the coordinator's restore is under way, and a coordinator was
\* rejected for a backup that is not Done
C15_Witness ==
  \/ /\ pc["a"] = Returned
     /\ err["a"] = <<Tok("metadata for replset/shard is not found", "rs1", 0)>>
     /\ bcp.status = StatusDone
     /\ meta.exists
     /\ pc["c"] = P("conv", StatusRunning)
  \/ /\ pc["c"] = Returned
     /\ err["c"] = <<Tok("backup wasn't successful: status, error", StatusError, 0)>>
     /\ topo = "standalone"
     /\ lock[NoReplset] = NoLock

\* agent a's Run failed at the opening of the decoder of the dump object
\* (the decoder of the oplog object fails with the same text, after the dump)
DumpDecoderFailed(a) == HasMsg(err[a], "decompress object") /\ "dump" \notin started[a]

\* C16: a Run that fails at the opening of the dump's decoder does not
\* invoke mongorestore, and when it returns, its entry of the restore meta
\* has status Error with the error's text.
C16_DecoderFailureRecorded ==
  [][\A a \in Agents :
       /\ (pc[a] = P("dump", "") /\ HasMsg(err'[a], "decompress object"))
            => (started'[a] = started[a] /\ pc'[a] = P("mf1", ""))
       /\ (DumpDecoderFailed(a) /\ pc[a] # Returned /\ pc'[a] = Returned)
            => EntryFailed(meta', rsNameOf(a), err[a])]_vars

\* agent a's step begins the stage g of its Run
Begins(a, g) == g \in started'[a] /\ g \notin started[a]

\* C17: on every agent the user/role splice begins only from the point of
\* Run after the oplog replay, with the dump replay and the oplog replay
\* both invoked and no error returned by any step so far; the oplog replay
\* begins only after the dump replay succeeded; and once Run holds an error
\* or has returned, no stage begins any more.
C17_SpliceAfterReplays ==
  [][\A a \in Agents :
       /\ Begins(a, "users")
            => /\ pc[a] = P("users", "")
               /\ {"dump", "oplog"} \subseteq started[a]
               /\ err[a] = Nil
       /\ Begins(a, "oplog")
            => /\ pc[a] = P("oplog", "")
               /\ "dump" \in started[a]
               /\ "users" \notin started[a]
               /\ err[a] = Nil
       /\ Begins(a, "dump") => (started[a] = {} /\ err[a] = Nil)
       /\ (err[a] # Nil \/ pc[a] = Returned) => started'[a] = started[a]]_vars

\* the shard agent has run the splice after both replays, and the
\* coordinator's oplog replay failed, so that it never spliced
C17_Witness ==
  /\ started["a"] = {"dump", "oplog", "users"}
  /\ started["c"] = {"dump", "oplog"}
  /\ HasMsg(err["c"], "oplog apply")
  /\ pc["c"] = Returned

\* ------------------------------------------------------------ oplog slice
\* order of timestamps: seconds first, then the ordinal
TsLess(t1, t2) == t1.T < t2.T \/ (t1.T = t2.T /\ t1.I < t2.I)
TsLeq(t1, t2) == t1 = t2 \/ TsLess(t1, t2)

\* the cursor has yielded a record past the end of the span
Crossed == cur.pos >= 1 /\ TsLess(ot.end, CurDocs[cur.pos].ts)

\* C18: every operation WriteTo hands to the writer has
\* start <= ts <= end; the step that reads the first operation with
\* ts > end, noop or not, returns a nil error with the count so far and
\* writes nothing; no operation before it had ts > end; and after the
\* return nothing more is read or written.
C18_TailStopsPastEnd ==
  /\ [](/\ \A i \in 1..Len(out) :
             TsLeq(ot.start, out[i].doc.ts) /\ TsLeq(out[i].doc.ts, ot.end)
        /\ \A i \in 1..(cur.pos - 1) : TsLeq(CurDocs[i].ts, ot.end)
        /\ Crossed => (ret.done /\ ret.err = Nil /\ ~cur.open))
  /\ [][/\ (cur'.pos = cur.pos + 1 /\ TsLess(ot.end, CurDocs[cur.pos + 1].ts))
             => /\ ret' = [done |-> TRUE, n |-> written, err |-> Nil]
                /\ out' = out
        /\ ret.done => UNCHANGED <<cur, out, written, ret>>]_vars

\* WriteTo has written an operation and returned at a noop past the end,
\* with an operation left unread in the cursor behind it
C18_Witness ==
  /\ ret.done /\ ret.err = Nil
  /\ Crossed
  /\ CurDocs[cur.pos].op = OperationNoop
  /\ Len(out) >= 1
  /\ cur.pos < Len(CurDocs)
  /\ CurDocs[cur.pos + 1].op # OperationNoop

\* the records of the span the slice is to hold: the non-noop operations
\* that precede the first operation with ts > end
RECURSIVE SliceOf(_)
SliceOf(docs) ==
  IF docs = <<>> \/ TsLess(ot.end, Head(docs).ts) THEN <<>>
  ELSE IF Head(docs).op = OperationNoop THEN SliceOf(Tail(docs))
  ELSE <<Head(docs)>> \o SliceOf(Tail(docs))

\* bytes the writer has received
RECURSIVE Bytes(_)
Bytes(o) == IF o = <<>> THEN 0 ELSE Head(o).n + Bytes(Tail(o))

OutDocs == [i \in 1..Len(out) |-> out[i].doc]

\* every Write before the last one was accepted whole
WholeButLast == \A i \in 1..(Len(out) - 1) : out[i].n = RawLen(out[i].doc)

\* what the writer holds is the beginning of the slice, each record once
\* and in cursor order, and never a noop
SlicePrefix ==
  /\ Len(out) <= Len(SliceOf(CurDocs))
  /\ OutDocs = SubSeq(SliceOf(CurDocs), 1, Len(out))
  /\ WholeButLast
  /\ \A i \in 1..Len(out) : out[i].doc.op # OperationNoop

\* after a nil return at the terminator the writer holds the whole slice
SliceComplete ==
  (ret.done /\ ret.err = Nil /\ Crossed)
    => (OutDocs = SliceOf(CurDocs) /\ \A i \in 1..Len(out) : out[i].n = RawLen(out[i].doc))

\* C19: the writer holds the raw records of the non-noop operations that
\* precede the terminator, each once and in cursor order, never a noop,
\* and on every return, the error returns included, the returned count is
\* the number of bytes the writer has received.
C19_SliceAndCount ==
  /\ SlicePrefix
  /\ SliceComplete
  /\ ret.done => ret.n = Bytes(out)

\* C20: WriteTo returns a nil error only when an operation with ts > end
\* was read; when the cursor ends before that, the error is not nil.
C20_UncoveredWindowIsError ==
  (ret.done /\ ret.err = Nil) => Crossed

\* ------------------------------------------------------ user/role splice
\* C21: after swapUsers has returned nil, system.users holds the current
\* user's document as it was and, for every other _id, exactly the documents
\* the temporary users collection had; system.roles holds the documents of
\* the current user's roles as they were and, for every other _id, exactly
\* the documents the temporary roles collection had; and both temporary
\* collections are dropped.
C21_SpliceExact ==
  (spc = "returned" /\ serr = Nil)
    => /\ usersC = {d \in pre.users : d.id = user} \cup {d \in pre.tmpUsers : d.id # user}
       /\ rolesC = {d \in pre.roles : d.id \in eroles}
                     \cup {d \in pre.tmpRoles : d.id \notin eroles}
       /\ ~tmpUsersC.exists
       /\ ~tmpRolesC.exists

\* ------------------------------------------------ source of the backup meta
\* C22: Run reads the metadata file of the blob store only when the
\* database has no document of the backup; the meta it goes on with is the
\* database's document when there is one, else the decoded file; and when
\* the database read fails otherwise, or the file cannot be read or decoded,
\* Run returns "get backup metadata" at once: the step writes nothing to the
\* restore meta, no stage is begun, and the coordinator's restore meta does
\* not exist.
C22_MetaFromDbFirst ==
  /\ [](\A a \in Agents :
          /\ from[a].store => ~bcpDb.exists
          /\ from[a].took = "db" => (bcpDb.exists /\ from[a].m = bcpDb.meta)
          /\ from[a].took = "store"
               => (~bcpDb.exists /\ bcpStore.kind = "json" /\ from[a].m = bcpStore.meta)
          /\ (from[a] # NotRead /\ bcpDb.exists /\ ~HasMsg(err[a], "get backup metadata"))
               => from[a].took = "db"
          /\ (from[a] # NotRead /\ ~bcpDb.exists /\ bcpStore.kind # "json")
               => HasMsg(err[a], "get backup metadata")
          /\ HasMsg(err[a], "get backup metadata")
               => /\ pc[a] = Returned
                  /\ from[a].took = ""
                  /\ started[a] = {}
                  /\ IsLeader(a) => ~meta.exists)
  /\ [][\A a \in Agents :
          /\ (StepOf(a) /\ HasMsg(err'[a], "get backup metadata")) => meta' = meta
          /\ pc[a] = Returned => ~StepOf(a)]_vars

\* the coordinator took the meta from the blob store and wrote the restore
\* meta, and the worker's Run failed to read the file
C22_Witness ==
  /\ from["c"].took = "store"
  /\ meta.exists
  /\ from["a"].store
  /\ HasMsg(err["a"], "get from store")
  /\ pc["a"] = Returned

\* ------------------------------------------------------- entries at Done
\* C23: a replsets entry of the restore meta that has the status Done is
\* left as it is by every step of every agent's Run: it stays in the list
\* and its status and error do not change.
C23_DoneEntryFrozen ==
  [][\A i \in 1..Len(meta.replsets) :
       meta.replsets[i].status = StatusDone
         => /\ i <= Len(meta'.replsets)
            /\ meta'.replsets[i] = meta.replsets[i]]_vars

\* ------------------------------------------------------- a stale restore
Stuck(e) == HasMsg(e, "restore stuck, last beat ts")

\* the heartbeat of the restore meta is older than StaleFrameSec
StaleRestore == meta.exists /\ meta.hb + StaleFrameSec < now

\* C24: a poll of waitForStatus that is served while the heartbeat of the
\* restore meta is stale, and whose reads succeed, returns "restore stuck";
\* the error is returned by such polls only; and when an agent whose Run
\* holds that error after it added its replset entry has gone through
\* MarkFailed and returns, the status of the restore is Error.
C24_StaleRestoreFails ==
  [][\A a \in Agents :
       /\ \A st \in {StatusStarting, StatusRunning, StatusDumpDone} :
            (pc[a] = P("wait", st) /\ StepOf(a) /\ StaleRestore
               /\ faults' = faults /\ ~cancelled[a])
              => Stuck(err'[a])
       /\ (Stuck(err'[a]) /\ ~Stuck(err[a])) => (StaleRestore /\ pc[a].at = "wait")
       /\ (pc[a].at \in {"mf1", "mf2"} /\ pc'[a] = Returned /\ Stuck(err[a]))
            => meta'.status = StatusError]_vars

\* -------------------------------------------------- heartbeat refresher
\* C25 as claimed: once the coordinator's Run has returned, the heartbeat
\* of the restore meta is not refreshed any more.
C25_NoRefreshAfterReturn ==
  [][pc["c"] = Returned => meta'.hb = meta.hb]_vars

\* C25: hbstop is open only while the coordinator's Run is executing and
\* the restore meta exists, and it is opened by the step of the coordinator
\* that writes the meta with status Starting; the heartbeat of an existing
\* meta is refreshed by the goroutine only, from a tick waiting in tk.C;
\* Run's return closes hbstop, and after it the heartbeat can still be
\* refreshed only by a select that serves a waiting tick before it serves
\* hbstop; once the goroutine has returned the heartbeat is never refreshed;
\* and a step of the goroutine, with a failed RestoreHB or not, changes
\* neither Run's position and error nor the goroutine's being alive, except
\* by serving hbstop.
C25_RefresherLifecycle ==
  /\ [](/\ hbOn => (meta.exists /\ Running("c"))
        /\ hbDone => (meta.exists /\ ~hbOn)
        /\ late => pc["c"] = Returned)
  /\ [][/\ (hbOn' /\ ~hbOn)
             => (~meta.exists /\ meta'.exists /\ meta'.status = StatusStarting /\ StepOf("c"))
        /\ (hbOn /\ ~hbOn') => pc'["c"] = Returned
        /\ (meta.exists /\ meta'.hb # meta.hb)
             => (~hbDone /\ tkReady /\ ~tkReady' /\ meta'.hb = now)
        /\ (tkReady /\ ~tkReady') => UNCHANGED <<pc, err, hbOn, hbDone>>
        /\ hbDone' # hbDone => (pc["c"] = Returned /\ UNCHANGED <<pc, err, meta>>)]_vars

\* Run returned while a tick was waiting, the goroutine served the tick
\* first and refreshed the heartbeat, and then it returned
C25_Witness ==
  /\ pc["c"] = Returned
  /\ late
  /\ hbDone
  /\ meta.hb = now
  /\ now > 0

\* ------------------------------------------------------------ a calm run
\* A run without failing calls, cancellations or stopped heartbeats, in a
\* deployment with one agent per replica set, and with prompt agents: time
\* passes only while no agent can take a step.
InitCalm == Init /\ topo # "takeover"

CalmRunStep(a) == RunStep(a) /\ faults' = faults

NextCalm ==
  \/ \E a \in Agents : CalmRunStep(a)
  \/ Tick /\ faults' = faults /\ ~ENABLED (\E a \in Agents : CalmRunStep(a))
  \/ \E a \in Agents : LockRelease(a)

\* every agent keeps executing its Run, the clock keeps running
CalmSpec == InitCalm /\ [][NextCalm]_vars /\ WF_vars(NextCalm)

\* C14: in a calm run every agent's Run eventually returns nil and the
\* cluster status eventually is Done, after Starting, Running and DumpDone,
\* in an unsharded deployment (a replica set, or a node without set name)
\* and in a sharded one.
C14_CalmRunCompletes ==
  <>(/\ \A a \in Active(topo) : pc[a] = Returned /\ err[a] = Nil
     /\ meta.exists
     /\ meta.status = StatusDone
     /\ {StatusStarting, StatusRunning, StatusDumpDone} \subseteq everStatus)
====